---- MODULE Spec2Model ----
(***************************************************************************)
(* Model of examples/fastapi/app.py: a FastAPI service bridging an LLRP    *)
(* reader client to HTTP endpoints and a WebSocket stream of tag reads.    *)
(*                                                                         *)
(* Two threads run the code.  The asyncio event loop runs the HTTP         *)
(* handlers, websocket_endpoint and the process_queue task; its tasks      *)
(* interleave only at an await.  The reader client's own thread runs       *)
(* tag_report_cb and handle_event; it interleaves with the event loop      *)
(* between any two accesses to the shared globals.                         *)
(***************************************************************************)
EXTENDS Integers, Sequences, FiniteSets, TLC

\* ---------------------------------------------------------------- bounds
NumConns == 2
MaxReports == 2
MaxBatch == 2
MaxClientMsgs == 1
MaxCmds == 2

Conns == 1..NumConns

\* ------------------------------------------------ reader client (library)
STATE_DISCONNECTED == 1
STATE_CONNECTED == 3
STATE_INVENTORYING == 6

StateCodes == {STATE_DISCONNECTED, STATE_CONNECTED, STATE_INVENTORYING}

getStateName(code) ==
  CASE code = STATE_DISCONNECTED -> "DISCONNECTED"
    [] code = STATE_CONNECTED -> "CONNECTED"
    [] code = STATE_INVENTORYING -> "INVENTORYING"
    [] OTHER -> "UNKNOWN"

\* ------------------------------------------------------------ tag reports
\* EPC values are the hex-digit bytes the client library hands out.
AsciiChr ==
  [b \in {48, 49, 50, 97, 101} |->
     CASE b = 48 -> "0" [] b = 49 -> "1" [] b = 50 -> "2"
       [] b = 97 -> "a" [] b = 101 -> "e"]

\* bytes.decode("ascii")
decode_ascii(bytes) == [i \in 1..Len(bytes) |-> AsciiChr[bytes[i]]]

TagReportSet ==
  { [EPC |-> <<101, 50>>, ChannelIndex |-> 1,
     LastSeenTimestampUTC |-> 10, TagSeenCount |-> 1],
    [EPC |-> <<48, 97>>, ChannelIndex |-> 2,
     LastSeenTimestampUTC |-> 20, TagSeenCount |-> 3] }

SeqsUpTo(S, n) == UNION { [1..k -> S] : k \in 0..n }

ReportBatches == SeqsUpTo(TagReportSet, MaxBatch)

\* RFIDTag(epc=..., channel=..., last_seen=..., seen_count=...)
RFIDTag(tag) ==
  [cls |-> "RFIDTag",
   epc |-> decode_ascii(tag.EPC),
   channel |-> tag.ChannelIndex,
   last_seen |-> tag.LastSeenTimestampUTC,
   seen_count |-> tag.TagSeenCount]

\* RFIDTag.model_dump()
model_dump(obj) ==
  [epc |-> obj.epc, channel |-> obj.channel,
   last_seen |-> obj.last_seen, seen_count |-> obj.seen_count]

\* ------------------------------------------------------------------ lists
Range(l) == { l[i] : i \in 1..Len(l) }

\* list.remove(x): drops the first occurrence of x (the caller has checked,
\* or relies on, x being present; an absent x raises ValueError).
ListRemove(l, x) ==
  LET i == CHOOSE k \in 1..Len(l) :
             l[k] = x /\ \A j \in 1..(k - 1) : l[j] # x
  IN SubSeq(l, 1, i - 1) \o SubSeq(l, i + 1, Len(l))

\* ------------------------------------------------------------------ events
EventSet ==
  { [kind |-> "GPIEvent", GPIPortNumber |-> p, GPIEvent |-> v] :
      p \in {1, 2}, v \in BOOLEAN }
  \cup { [kind |-> "ConnectionAttemptEvent", GPIPortNumber |-> 0,
          GPIEvent |-> FALSE] }

\* ------------------------------------------------------------------- state
VARIABLES
  TAG_DATA,            \* list of RFIDTag objects
  TAG_QUEUE,           \* queue.Queue of serialised batches
  ACTIVE_CONNECTIONS,  \* list of accepted websockets
  alive,               \* READER.is_alive()
  state,               \* READER.llrp.state
  cmds,                \* commands issued to READER.llrp, in order
  wpc,                 \* position of the running HTTP handler
  stName,              \* is_reading: the name computed at line 226
  resp,                \* the HTTP response returned last
  rpc,                 \* position of the reader thread's callback
  cbReports,           \* tag_reports argument of the last tag_report_cb
  nReports,            \* number of tag_report_cb invocations so far
  qpc,                 \* position of the process_queue task
  tags,                \* process_queue: the batch being fanned out
  snapshot,            \* process_queue: ACTIVE_CONNECTIONS[:] of the for
  idx,                 \* process_queue: sends started for this batch
  ws,                  \* per connection: position of websocket_endpoint
  inbox,               \* per connection: client text messages not yet read
  nread,               \* per connection: receive_text calls that returned
  sent,                \* per connection: messages delivered by send_json
  halted,              \* stop_reading has returned, no start_reading since
  putLog,              \* every batch put on TAG_QUEUE so far, in order
  sspc,                \* position of the start_stop handler
  ssStart,             \* the running start_stop has issued startInventory
  life                 \* position of lifespan

vars == <<TAG_DATA, TAG_QUEUE, ACTIVE_CONNECTIONS, alive, state, cmds, wpc,
          stName, resp, rpc, cbReports, nReports, qpc, tags, snapshot, idx,
          ws, inbox, nread, sent, halted, putLog, sspc, ssStart, life>>

service == <<TAG_DATA, TAG_QUEUE, ACTIVE_CONNECTIONS>>
reader == <<alive, state, cmds>>
webv == <<wpc, stName, resp>>
rthread == <<rpc, cbReports, nReports>>
pqv == <<qpc, tags, snapshot, idx>>
wsv == <<ws, inbox, nread>>

NoResp == [ep |-> "none"]

Init ==
  /\ TAG_DATA = <<>>
  /\ TAG_QUEUE = <<>>
  /\ ACTIVE_CONNECTIONS = <<>>
  /\ alive = TRUE
  /\ state = STATE_CONNECTED
  /\ cmds = <<>>
  /\ wpc = "idle"
  /\ stName = ""
  /\ resp = NoResp
  /\ rpc = "idle"
  /\ cbReports = <<>>
  /\ nReports = 0
  /\ qpc = "sleep"
  /\ tags = <<>>
  /\ snapshot = <<>>
  /\ idx = 0
  /\ ws = [c \in Conns |-> "new"]
  /\ inbox = [c \in Conns |-> 0]
  /\ nread = [c \in Conns |-> 0]
  /\ sent = [c \in Conns |-> <<>>]
  /\ halted = FALSE
  /\ putLog = <<>>
  /\ sspc = "idle"
  /\ ssStart = FALSE
  /\ life = "serving"

\* ------------------------------------------- reader client commands (llrp)
\* READER.llrp.startInventory()
startInventory ==
  /\ cmds' = Append(cmds, "startInventory")
  /\ state' = IF alive THEN STATE_INVENTORYING ELSE state

\* READER.llrp.stopPolitely()
stopPolitely ==
  /\ cmds' = Append(cmds, "stopPolitely")
  /\ state' = IF alive THEN STATE_CONNECTED ELSE state

\* The reader thread ends (connection lost): is_alive() turns false.
ReaderDies ==
  /\ alive
  /\ rpc = "idle"
  /\ alive' = FALSE
  /\ state' = STATE_DISCONNECTED
  /\ UNCHANGED <<service, cmds, webv, rthread, pqv, wsv, sent, halted>>
  /\ UNCHANGED <<putLog, sspc, ssStart, life>>

\* ------------------------------------------------------- shared functions
\* a clear_tag_data that leaves the list as it is
clear_tag_data_keep == TAG_DATA

\* clear_tag_data(): the value assigned to TAG_DATA
clear_tag_data == <<>>

\* a stop_reading without the liveness test
stop_reading_always ==
  /\ stopPolitely
  /\ halted' = TRUE

\* stop_reading(), a single step of whichever thread calls it
stop_reading ==
  /\ IF alive THEN stopPolitely ELSE UNCHANGED <<cmds, state>>
  /\ halted' = TRUE

\* ---------------------------------------------------------- HTTP handlers
\* GET /start, lines 162-163 of start_reading: the liveness test and the clear
start ==
  /\ wpc = "idle"
  /\ Len(cmds) < MaxCmds
  /\ halted' = FALSE
  /\ IF alive
       THEN /\ TAG_DATA' = clear_tag_data
            /\ wpc' = "start_inv"
            /\ UNCHANGED resp
       ELSE /\ resp' = [ep |-> "start", message |-> "Reading started"]
            /\ UNCHANGED <<TAG_DATA, wpc>>
  /\ UNCHANGED <<TAG_QUEUE, ACTIVE_CONNECTIONS, reader, stName, rthread,
                 pqv, wsv, sent>>
  /\ UNCHANGED <<putLog, sspc, ssStart, life>>

\* GET /start, line 164 and the return
start_startInventory ==
  /\ wpc = "start_inv"
  /\ startInventory
  /\ wpc' = "idle"
  /\ resp' = [ep |-> "start", message |-> "Reading started"]
  /\ UNCHANGED <<service, alive, stName, rthread, pqv, wsv, sent, halted>>
  /\ UNCHANGED <<putLog, sspc, ssStart, life>>

\* GET /stop
stop ==
  /\ wpc = "idle"
  /\ Len(cmds) < MaxCmds
  /\ stop_reading
  /\ resp' = [ep |-> "stop", message |-> "Reading stopped"]
  /\ UNCHANGED <<service, alive, wpc, stName, rthread, pqv, wsv, sent>>
  /\ UNCHANGED <<putLog, sspc, ssStart, life>>

\* GET /last-read
get_tags ==
  /\ wpc = "idle"
  /\ resp' = [ep |-> "last-read", tags |-> TAG_DATA]
  /\ UNCHANGED <<service, reader, wpc, stName, rthread, pqv, wsv, sent,
                 halted>>
  /\ UNCHANGED <<putLog, sspc, ssStart, life>>

\* GET /state, line 226: the first read of READER.llrp.state
is_reading_name ==
  /\ wpc = "idle"
  /\ stName' = getStateName(state)
  /\ wpc' = "state_code"
  /\ UNCHANGED <<service, reader, resp, rthread, pqv, wsv, sent, halted>>
  /\ UNCHANGED <<putLog, sspc, ssStart, life>>

\* GET /state, line 227: the second read, and the return
is_reading_code ==
  /\ wpc = "state_code"
  /\ resp' = [ep |-> "state", state |-> stName, code |-> state]
  /\ wpc' = "idle"
  /\ UNCHANGED <<service, reader, stName, rthread, pqv, wsv, sent, halted>>
  /\ UNCHANGED <<putLog, sspc, ssStart, life>>

\* a GET /clear that also drops the batches waiting on the queue
clear_queue_too ==
  /\ wpc = "idle"
  /\ TAG_DATA' = clear_tag_data
  /\ TAG_QUEUE' = <<>>
  /\ resp' = [ep |-> "clear", message |-> "Tag data cleared"]
  /\ UNCHANGED <<ACTIVE_CONNECTIONS, reader, wpc, stName,
                 rthread, pqv, wsv, sent, halted>>
  /\ UNCHANGED <<putLog, sspc, ssStart, life>>

\* GET /clear
clear ==
  /\ wpc = "idle"
  /\ TAG_DATA' = clear_tag_data
  /\ resp' = [ep |-> "clear", message |-> "Tag data cleared"]
  /\ UNCHANGED <<TAG_QUEUE, ACTIVE_CONNECTIONS, reader, wpc, stName,
                 rthread, pqv, wsv, sent, halted>>
  /\ UNCHANGED <<putLog, sspc, ssStart, life>>

\* ------------------------------------------------ reader-thread callbacks
\* a tag_report_cb that extends TAG_DATA instead of rebinding it
tag_report_store_extend(tag_reports) ==
  /\ alive
  /\ state = STATE_INVENTORYING
  /\ rpc = "idle"
  /\ nReports < MaxReports
  /\ TAG_DATA' = TAG_DATA \o
                    [i \in 1..Len(tag_reports) |-> RFIDTag(tag_reports[i])]
  /\ cbReports' = tag_reports
  /\ nReports' = nReports + 1
  /\ rpc' = "cb_put"
  /\ UNCHANGED <<TAG_QUEUE, ACTIVE_CONNECTIONS, reader, webv, pqv, wsv,
                 sent, halted>>
  /\ UNCHANGED <<putLog, sspc, ssStart, life>>

\* tag_report_cb, lines 119-127: TAG_DATA is rebound to the new list
tag_report_store(tag_reports) ==
  /\ alive
  /\ state = STATE_INVENTORYING
  /\ rpc = "idle"
  /\ nReports < MaxReports
  /\ TAG_DATA' = [i \in 1..Len(tag_reports) |-> RFIDTag(tag_reports[i])]
  /\ cbReports' = tag_reports
  /\ nReports' = nReports + 1
  /\ rpc' = "cb_put"
  /\ UNCHANGED <<TAG_QUEUE, ACTIVE_CONNECTIONS, reader, webv, pqv, wsv,
                 sent, halted>>
  /\ UNCHANGED <<putLog, sspc, ssStart, life>>

\* tag_report_cb, lines 128-129: the global TAG_DATA is read back and queued
tag_report_put ==
  /\ rpc = "cb_put"
  /\ TAG_QUEUE' = Append(TAG_QUEUE,
                         [i \in 1..Len(TAG_DATA) |-> model_dump(TAG_DATA[i])])
  /\ rpc' = "idle"
  /\ UNCHANGED <<TAG_DATA, ACTIVE_CONNECTIONS, reader, webv, cbReports,
                 nReports, pqv, wsv, sent, halted>>
  /\ putLog' = Append(putLog, TAG_QUEUE'[Len(TAG_QUEUE')])
  /\ UNCHANGED <<sspc, ssStart, life>>

\* a handle_event that does not look at the GPI port number
handle_event_anyport(event) ==
  /\ alive
  /\ rpc = "idle"
  /\ Len(cmds) < MaxCmds
  /\ IF event.kind = "GPIEvent"
       THEN IF event.GPIEvent
              THEN /\ TAG_DATA' = clear_tag_data
                   /\ halted' = FALSE
                   /\ rpc' = "gpi_inv"
                   /\ UNCHANGED <<cmds, state>>
              ELSE /\ stop_reading
                   /\ UNCHANGED <<TAG_DATA, rpc>>
       ELSE UNCHANGED <<TAG_DATA, cmds, state, rpc, halted>>
  /\ UNCHANGED <<TAG_QUEUE, ACTIVE_CONNECTIONS, alive, webv, cbReports,
                 nReports, pqv, wsv, sent>>
  /\ UNCHANGED <<putLog, sspc, ssStart, life>>

\* handle_event, up to the return of stop_reading or line 163 of start_reading.
\* The callback runs on the reader thread, so READER.is_alive() holds at
\* line 141 and at line 162.
handle_event(event) ==
  /\ alive
  /\ rpc = "idle"
  /\ Len(cmds) < MaxCmds
  /\ IF event.kind = "GPIEvent" /\ event.GPIPortNumber = 1
       THEN IF event.GPIEvent
              THEN /\ TAG_DATA' = clear_tag_data
                   /\ halted' = FALSE
                   /\ rpc' = "gpi_inv"
                   /\ UNCHANGED <<cmds, state>>
              ELSE /\ stop_reading
                   /\ UNCHANGED <<TAG_DATA, rpc>>
       ELSE UNCHANGED <<TAG_DATA, cmds, state, rpc, halted>>
  /\ UNCHANGED <<TAG_QUEUE, ACTIVE_CONNECTIONS, alive, webv, cbReports,
                 nReports, pqv, wsv, sent>>
  /\ UNCHANGED <<putLog, sspc, ssStart, life>>

\* handle_event -> start_reading, line 164
gpi_start_inventory ==
  /\ rpc = "gpi_inv"
  /\ startInventory
  /\ rpc' = "idle"
  /\ UNCHANGED <<service, alive, webv, cbReports, nReports, pqv, wsv, sent,
                 halted>>
  /\ UNCHANGED <<putLog, sspc, ssStart, life>>

\* ----------------------------------------------------------- process_queue
\* a polling loop that takes the newest batch of the queue
process_queue_poll_newest ==
  /\ wpc = "idle"
  /\ qpc = "sleep"
  /\ IF TAG_QUEUE # <<>>
       THEN /\ tags' = TAG_QUEUE[Len(TAG_QUEUE)]
            /\ TAG_QUEUE' = SubSeq(TAG_QUEUE, 1, Len(TAG_QUEUE) - 1)
            /\ snapshot' = ACTIVE_CONNECTIONS
            /\ IF ACTIVE_CONNECTIONS = <<>>
                 THEN idx' = 0 /\ qpc' = "sleep"
                 ELSE idx' = 1 /\ qpc' = "send"
       ELSE UNCHANGED <<TAG_QUEUE, pqv>>
  /\ UNCHANGED <<TAG_DATA, ACTIVE_CONNECTIONS, reader, webv, rthread, wsv,
                 sent, halted>>
  /\ UNCHANGED <<putLog, sspc, ssStart, life>>

\* One iteration of the while loop up to its first await: the queue test,
\* the get, the copy of the connection list and the first send_json call.
process_queue_poll ==
  /\ wpc = "idle"
  /\ qpc = "sleep"
  /\ IF TAG_QUEUE # <<>>
       THEN /\ tags' = Head(TAG_QUEUE)
            /\ TAG_QUEUE' = Tail(TAG_QUEUE)
            /\ snapshot' = ACTIVE_CONNECTIONS
            /\ IF ACTIVE_CONNECTIONS = <<>>
                 THEN idx' = 0 /\ qpc' = "sleep"
                 ELSE idx' = 1 /\ qpc' = "send"
       ELSE UNCHANGED <<TAG_QUEUE, pqv>>
  /\ UNCHANGED <<TAG_DATA, ACTIVE_CONNECTIONS, reader, webv, rthread, wsv,
                 sent, halted>>
  /\ UNCHANGED <<putLog, sspc, ssStart, life>>

\* after a send_json: the next connection of the copy, or the sleep
process_queue_advance ==
  IF idx < Len(snapshot)
    THEN idx' = idx + 1 /\ qpc' = "send"
    ELSE idx' = idx /\ qpc' = "sleep"

\* await connection.send_json({"tags": tags}) returns
send_json_ok ==
  /\ wpc = "idle"
  /\ qpc = "send"
  /\ sent' = [sent EXCEPT ![snapshot[idx]] = Append(@, [tags |-> tags])]
  /\ process_queue_advance
  /\ UNCHANGED <<service, reader, webv, rthread, tags, snapshot, wsv,
                 halted>>
  /\ UNCHANGED <<putLog, sspc, ssStart, life>>

\* await connection.send_json(...) raises: lines 55-57
send_json_raises ==
  /\ wpc = "idle"
  /\ qpc = "send"
  /\ IF snapshot[idx] \in Range(ACTIVE_CONNECTIONS)
       THEN /\ ACTIVE_CONNECTIONS' =
                 ListRemove(ACTIVE_CONNECTIONS, snapshot[idx])
            /\ process_queue_advance
       ELSE \* ValueError raised inside the except block leaves the task
            /\ qpc' = "dead"
            /\ UNCHANGED <<ACTIVE_CONNECTIONS, idx>>
  /\ UNCHANGED <<TAG_DATA, TAG_QUEUE, reader, webv, rthread, tags, snapshot,
                 wsv, sent, halted>>
  /\ UNCHANGED <<putLog, sspc, ssStart, life>>

\* ------------------------------------------------------ websocket_endpoint
\* lines 178-180: accept and append
websocket_accept(c) ==
  /\ wpc = "idle"
  /\ ws[c] = "new"
  /\ ACTIVE_CONNECTIONS' = Append(ACTIVE_CONNECTIONS, c)
  /\ ws' = [ws EXCEPT ![c] = "open"]
  /\ UNCHANGED <<TAG_DATA, TAG_QUEUE, reader, webv, rthread, pqv, inbox,
                 nread, sent, halted>>
  /\ UNCHANGED <<putLog, sspc, ssStart, life>>

\* the client sends a text message
client_send(c) ==
  /\ ws[c] = "open"
  /\ inbox[c] + nread[c] < MaxClientMsgs
  /\ inbox' = [inbox EXCEPT ![c] = @ + 1]
  /\ UNCHANGED <<service, reader, webv, rthread, pqv, ws, nread, sent,
                 halted>>
  /\ UNCHANGED <<putLog, sspc, ssStart, life>>

\* a receive loop that ends, unsubscribing, on the first client message
websocket_receive_text_leave(c) ==
  /\ wpc = "idle"
  /\ ws[c] = "open"
  /\ inbox[c] > 0
  /\ inbox' = [inbox EXCEPT ![c] = @ - 1]
  /\ nread' = [nread EXCEPT ![c] = @ + 1]
  /\ ACTIVE_CONNECTIONS' =
       IF c \in Range(ACTIVE_CONNECTIONS)
         THEN ListRemove(ACTIVE_CONNECTIONS, c)
         ELSE ACTIVE_CONNECTIONS
  /\ UNCHANGED <<TAG_DATA, TAG_QUEUE, reader, webv, rthread, pqv, ws, sent,
                 halted>>
  /\ UNCHANGED <<putLog, sspc, ssStart, life>>

\* line 183: receive_text returns a message, the loop goes round
websocket_receive_text(c) ==
  /\ wpc = "idle"
  /\ ws[c] = "open"
  /\ inbox[c] > 0
  /\ inbox' = [inbox EXCEPT ![c] = @ - 1]
  /\ nread' = [nread EXCEPT ![c] = @ + 1]
  /\ UNCHANGED <<service, reader, webv, rthread, pqv, ws, sent, halted>>
  /\ UNCHANGED <<putLog, sspc, ssStart, life>>

\* a disconnect handler that only logs
websocket_disconnect_keep(c) ==
  /\ wpc = "idle"
  /\ ws[c] = "open"
  /\ inbox[c] = 0
  /\ ws' = [ws EXCEPT ![c] = "closed"]
  /\ UNCHANGED <<service, reader, webv, rthread, pqv, inbox, nread, sent,
                 halted>>
  /\ UNCHANGED <<putLog, sspc, ssStart, life>>

\* lines 184-186: receive_text raises WebSocketDisconnect
websocket_disconnect(c) ==
  /\ wpc = "idle"
  /\ ws[c] = "open"
  /\ inbox[c] = 0
  /\ IF c \in Range(ACTIVE_CONNECTIONS)
       THEN /\ ACTIVE_CONNECTIONS' = ListRemove(ACTIVE_CONNECTIONS, c)
            /\ ws' = [ws EXCEPT ![c] = "closed"]
       ELSE \* ValueError raised inside the except block leaves the handler
            /\ ws' = [ws EXCEPT ![c] = "crashed"]
            /\ UNCHANGED ACTIVE_CONNECTIONS
  /\ UNCHANGED <<TAG_DATA, TAG_QUEUE, reader, webv, rthread, pqv, inbox,
                 nread, sent, halted>>
  /\ UNCHANGED <<putLog, sspc, ssStart, life>>

\* lines 187-190: receive_text raises another exception
websocket_error(c) ==
  /\ wpc = "idle"
  /\ ws[c] = "open"
  /\ ACTIVE_CONNECTIONS' =
       IF c \in Range(ACTIVE_CONNECTIONS)
         THEN ListRemove(ACTIVE_CONNECTIONS, c)
         ELSE ACTIVE_CONNECTIONS
  /\ ws' = [ws EXCEPT ![c] = "closed"]
  /\ UNCHANGED <<TAG_DATA, TAG_QUEUE, reader, webv, rthread, pqv, inbox,
                 nread, sent, halted>>
  /\ UNCHANGED <<putLog, sspc, ssStart, life>>

\* -------------------------------------------------------------- start_stop
\* GET /start-stop, line 207 up to line 163 of start_reading
start_stop ==
  /\ wpc = "idle"
  /\ sspc = "idle"
  /\ Len(cmds) < MaxCmds
  /\ halted' = FALSE
  /\ IF alive
       THEN /\ TAG_DATA' = clear_tag_data
            /\ wpc' = "ss_inv"
            /\ UNCHANGED <<sspc, ssStart>>
       ELSE /\ sspc' = "sleep"
            /\ ssStart' = FALSE
            /\ UNCHANGED <<TAG_DATA, wpc>>
  /\ UNCHANGED <<TAG_QUEUE, ACTIVE_CONNECTIONS, reader, stName, resp,
                 rthread, pqv, wsv, sent, putLog, life>>

\* GET /start-stop, line 164 of start_reading, then the await of line 208
start_stop_startInventory ==
  /\ wpc = "ss_inv"
  /\ startInventory
  /\ wpc' = "idle"
  /\ sspc' = "sleep"
  /\ ssStart' = TRUE
  /\ UNCHANGED <<service, alive, stName, resp, rthread, pqv, wsv, sent,
                 halted, putLog, life>>

\* a start_stop that returns after the sleep without calling stop_reading
start_stop_wake_nostop ==
  /\ wpc = "idle"
  /\ sspc = "sleep"
  /\ sspc' = "idle"
  /\ ssStart' = FALSE
  /\ resp' = [ep |-> "start-stop"]
  /\ UNCHANGED <<service, reader, wpc, stName, rthread, pqv, wsv, sent,
                 halted, putLog, life>>

\* GET /start-stop, the sleep is over: line 209 and the return
start_stop_wake ==
  /\ wpc = "idle"
  /\ sspc = "sleep"
  /\ stop_reading
  /\ sspc' = "idle"
  /\ ssStart' = FALSE
  /\ resp' = [ep |-> "start-stop"]
  /\ UNCHANGED <<service, alive, wpc, stName, rthread, pqv, wsv, sent,
                 putLog, life>>

\* ---------------------------------------------------------------- lifespan
\* READER.disconnect()
disconnect ==
  /\ cmds' = Append(cmds, "disconnect")
  /\ alive' = FALSE
  /\ state' = STATE_DISCONNECTED

\* lines 86-91: the application stops; the polling task is cancelled and,
\* the reader being alive, stopPolitely is called and returns
lifespan_shutdown ==
  /\ life = "serving"
  /\ wpc = "idle"
  /\ qpc' = IF qpc = "dead" THEN "dead" ELSE "cancelled"
  /\ IF alive
       THEN stopPolitely /\ life' = "disconnect"
       ELSE UNCHANGED <<cmds, state>> /\ life' = "down"
  /\ UNCHANGED <<service, alive, webv, rthread, tags, snapshot, idx, wsv,
                 sent, halted, putLog, sspc, ssStart>>

\* lines 86-91 and 94-95: the same, but stopPolitely raises; the exception
\* is logged and line 92 is not reached
lifespan_shutdown_raises ==
  /\ life = "serving"
  /\ wpc = "idle"
  /\ alive
  /\ qpc' = IF qpc = "dead" THEN "dead" ELSE "cancelled"
  /\ cmds' = Append(cmds, "stopPolitely")
  /\ life' = "down"
  /\ UNCHANGED <<service, alive, state, webv, rthread, tags, snapshot, idx,
                 wsv, sent, halted, putLog, sspc, ssStart>>

\* lines 92-93: READER.disconnect()
lifespan_disconnect ==
  /\ life = "disconnect"
  /\ rpc = "idle"
  /\ disconnect
  /\ life' = "down"
  /\ UNCHANGED <<service, webv, rthread, pqv, wsv, sent, halted, putLog,
                 sspc, ssStart>>

\* ------------------------------------------------------------------ claims
\* C1: once stop_reading has returned, no {"tags": ...} message is sent to
\* any subscriber until start_reading is called again.
C1_StopHaltsPushes == [][halted => sent' = sent]_vars

\* C2: no exception escapes the polling loop: process_queue keeps running.
C2_LoopKeepsRunning == qpc # "dead"

\* a send_json call of the fan-out raises in this step
SendRaised ==
  /\ qpc = "send"
  /\ sent' = sent
  /\ <<qpc, idx>>' # <<qpc, idx>>

\* websocket_endpoint has finished handling the end of connection c
Handled(c) == ws[c] \in {"closed", "crashed"}

\* C3 (as stated): when start_reading returns, TAG_DATA is empty.
C3_StartLeavesNoTags ==
  [][( \/ (wpc = "start_inv" /\ wpc' = "idle")
       \/ (rpc = "gpi_inv" /\ rpc' = "idle")
       \/ (wpc = "idle" /\ wpc' = "idle" /\ resp' # resp
             /\ resp'.ep = "start") )
     => TAG_DATA' = <<>>]_vars

\* C3 (amended): with a live reader start_reading empties TAG_DATA before it
\* issues startInventory; with a reader that is not alive it issues nothing
\* and leaves TAG_DATA as it was.
C3_StartClearsWhenAlive ==
  [][/\ ( \/ (wpc = "idle" /\ wpc' = "start_inv")
          \/ (rpc = "idle" /\ rpc' = "gpi_inv") )
        => (alive /\ TAG_DATA' = <<>> /\ cmds' = cmds)
     /\ (cmds' # cmds /\ cmds'[Len(cmds')] = "startInventory")
        => \/ (wpc = "start_inv" /\ wpc' = "idle")
           \/ (rpc = "gpi_inv" /\ rpc' = "idle")
     /\ (wpc = "idle" /\ wpc' = "idle" /\ resp' # resp /\ resp'.ep = "start")
        => (~alive /\ TAG_DATA' = TAG_DATA /\ cmds' = cmds)]_vars

\* GET /start has emptied a list that held tags, startInventory is next
C3_Witness ==
  /\ wpc = "start_inv"
  /\ TAG_DATA = <<>>
  /\ cbReports # <<>>
  /\ TAG_QUEUE # <<>>
  /\ TAG_QUEUE[Len(TAG_QUEUE)] # <<>>

\* C4: a connection whose disconnect websocket_endpoint has handled is not
\* in ACTIVE_CONNECTIONS, in that state and in every later one.
C4_DisconnectedRemoved ==
  \A c \in Conns : Handled(c) => c \notin Range(ACTIVE_CONNECTIONS)

\* a subscriber that received a batch has disconnected, another is still on
C4_Witness ==
  \E c \in Conns :
    /\ ws[c] = "closed"
    /\ sent[c] # <<>>
    /\ ACTIVE_CONNECTIONS # <<>>

\* C5: when send_json raises for a connection, that connection is out of
\* ACTIVE_CONNECTIONS afterwards, no other connection is removed, and the
\* fan-out goes on with the connections left in the copy.
C5_SendFailureRemovesOnlyOffender ==
  [][SendRaised =>
       /\ snapshot[idx] \notin Range(ACTIVE_CONNECTIONS')
       /\ \A c \in Conns \ {snapshot[idx]} :
            c \in Range(ACTIVE_CONNECTIONS') <=> c \in Range(ACTIVE_CONNECTIONS)
       /\ IF idx < Len(snapshot)
            THEN qpc' = "send" /\ idx' = idx + 1
            ELSE qpc' = "sleep"]_vars

\* C6: an iteration takes at most one batch, and the batch is sent, as the
\* message {"tags": batch}, to every connection that was in
\* ACTIVE_CONNECTIONS when it was dequeued.
C6_BatchReachesEverySubscriber ==
  [][/\ Len(TAG_QUEUE') >= Len(TAG_QUEUE) - 1
     /\ (Len(TAG_QUEUE') < Len(TAG_QUEUE))
        => (tags' = Head(TAG_QUEUE) /\ snapshot' = ACTIVE_CONNECTIONS)
     /\ (sent' # sent)
        => sent' = [sent EXCEPT ![snapshot[idx]] = Append(@, [tags |-> tags])]
     /\ (qpc' # "send") => idx' = Len(snapshot')]_vars

\* the records tag_report_cb is to build from its argument
ExpectedRecord(tag, i) ==
  /\ Len(tag.epc) = Len(cbReports'[i].EPC)
  /\ \A k \in 1..Len(tag.epc) : tag.epc[k] = AsciiChr[cbReports'[i].EPC[k]]
  /\ tag.channel = cbReports'[i].ChannelIndex
  /\ tag.last_seen = cbReports'[i].LastSeenTimestampUTC
  /\ tag.seen_count = cbReports'[i].TagSeenCount

C8_StateReflectsReader ==
  [][/\ (wpc = "idle" /\ wpc' = "state_code")
        => UNCHANGED <<service, reader>>
     /\ (wpc = "state_code" /\ wpc' = "idle")
        => /\ resp'.code = state
           /\ resp'.state = getStateName(resp'.code)
           /\ UNCHANGED <<service, reader>>]_vars

\* C9: a text message received on /ws changes neither TAG_DATA, TAG_QUEUE,
\* ACTIVE_CONNECTIONS nor the reader, and the connection stays subscribed.
C9_ClientMessagesIgnored ==
  [][\A c \in Conns :
       nread'[c] # nread[c]
         => /\ UNCHANGED <<service, reader, sent, halted>>
            /\ ws'[c] = "open"
            /\ c \in Range(ACTIVE_CONNECTIONS)
                 => c \in Range(ACTIVE_CONNECTIONS')]_vars

\* a subscriber's message has been read while tags were stored and queued
C9_Witness ==
  \E c \in Conns :
    /\ nread[c] > 0
    /\ ws[c] = "open"
    /\ TAG_DATA # <<>>
    /\ TAG_QUEUE # <<>>
    /\ Len(ACTIVE_CONNECTIONS) = 2

\* C10: the batch tag_report_cb puts on TAG_QUEUE is the serialisation of
\* the tag reports it was called with, tag by tag and in order.
C10_QueuedBatchIsReport ==
  [][(rpc = "cb_put" /\ rpc' = "idle")
       => LET batch == TAG_QUEUE'[Len(TAG_QUEUE')]
          IN /\ Len(batch) = Len(cbReports)
             /\ \A i \in 1..Len(cbReports) :
                  batch[i] = [epc |-> decode_ascii(cbReports[i].EPC),
                              channel |-> cbReports[i].ChannelIndex,
                              last_seen |-> cbReports[i].LastSeenTimestampUTC,
                              seen_count |-> cbReports[i].TagSeenCount]]_vars

\* number of batches tag_report_cb has put on TAG_QUEUE
NumPut == Len(putLog)

\* number of batches process_queue has taken from TAG_QUEUE
NumTaken == Len(putLog) - Len(TAG_QUEUE)

\* C11: under fair scheduling of the polling task, every batch put on
\* TAG_QUEUE is eventually dequeued, and the fan-out of a dequeued batch
\* runs to its end, reaching every connection of the copy.
C11_EveryBatchForwarded ==
  /\ \A k \in 1..(MaxReports + 1) : (NumPut >= k) ~> (NumTaken >= k)
  /\ (qpc = "send") ~> (qpc = "sleep" /\ idx = Len(snapshot))

\* s can be obtained from t by leaving elements out
IsSubseq(s, t) ==
  \E f \in [1..Len(s) -> 1..Len(t)] :
    /\ \A i \in 1..Len(s) : s[i] = t[f[i]]
    /\ \A i, j \in 1..Len(s) : i < j => f[i] < f[j]

\* C12: what a subscriber has received is, message by message, a selection
\* of the batches put on TAG_QUEUE, in the order they were put, each batch
\* at most once and each message carrying exactly one batch.
C12_SubscriberSeesFifo ==
  \A c \in Conns :
    /\ \A i \in 1..Len(sent[c]) : DOMAIN sent[c][i] = {"tags"}
    /\ IsSubseq([i \in 1..Len(sent[c]) |-> sent[c][i].tags], putLog)

\* a subscriber has received two different batches
C12_Witness ==
  \E c \in Conns :
    /\ Len(sent[c]) = 2
    /\ sent[c][1] # sent[c][2]
    /\ sent[c][1].tags = putLog[1]

\* C13: a GPI event on port 1 with a high value clears TAG_DATA and then
\* issues startInventory (the reader being alive), one with a low value
\* issues stopPolitely; an event on another port, or another kind of event,
\* issues no command and leaves TAG_DATA as it is.
C13_GpiPortOneTriggers ==
  [][/\ \A e \in EventSet :
          handle_event(e) =>
            IF e.kind = "GPIEvent" /\ e.GPIPortNumber = 1
              THEN IF e.GPIEvent
                     THEN /\ alive
                          /\ TAG_DATA' = <<>>
                          /\ cmds' = cmds
                          /\ rpc' = "gpi_inv"
                     ELSE /\ cmds' = Append(cmds, "stopPolitely")
                          /\ TAG_DATA' = TAG_DATA
                          /\ rpc' = "idle"
              ELSE UNCHANGED <<TAG_DATA, cmds, state, rpc>>
     /\ (rpc = "gpi_inv" /\ rpc' = "idle")
        => /\ cmds' = Append(cmds, "startInventory")
           /\ TAG_DATA' = TAG_DATA
     /\ (rpc = "idle" /\ rpc' = "gpi_inv") => TAG_DATA' = <<>>]_vars

\* with no HTTP request made, inventory has been started and stopped, and
\* tags were reported in between
C13_Witness ==
  /\ resp = NoResp
  /\ wpc = "idle"
  /\ cmds = <<"startInventory", "stopPolitely">>
  /\ nReports > 0
  /\ putLog # <<>>

\* C14: with a live reader GET /start clears TAG_DATA and then issues
\* startInventory once, and GET /stop issues stopPolitely once; with a
\* reader that is not alive neither issues a command nor touches TAG_DATA;
\* the response message does not depend on the reader being alive.
C14_StartStopPassThroughWhenAlive ==
  [][/\ (wpc = "idle" /\ wpc' = "start_inv")
        => (alive /\ TAG_DATA' = <<>> /\ cmds' = cmds /\ resp' = resp)
     /\ (wpc = "start_inv" /\ wpc' = "idle")
        => /\ cmds' = Append(cmds, "startInventory")
           /\ TAG_DATA' = TAG_DATA
           /\ resp' = [ep |-> "start", message |-> "Reading started"]
     /\ (wpc = "idle" /\ wpc' = "idle" /\ resp' # resp /\ resp'.ep = "start")
        => /\ ~alive
           /\ cmds' = cmds
           /\ TAG_DATA' = TAG_DATA
           /\ resp'.message = "Reading started"
     /\ (resp' # resp /\ resp'.ep = "stop")
        => /\ cmds' = IF alive THEN Append(cmds, "stopPolitely") ELSE cmds
           /\ TAG_DATA' = TAG_DATA
           /\ resp'.message = "Reading stopped"]_vars

\* GET /stop has returned for a reader that had died with tags stored: the
\* only command issued is the earlier startInventory
C14_Witness ==
  /\ ~alive
  /\ resp = [ep |-> "stop", message |-> "Reading stopped"]
  /\ cmds = <<"startInventory">>
  /\ TAG_DATA # <<>>

\* C15: GET /clear empties TAG_DATA, whether or not the reader is alive,
\* and changes neither the batches waiting on TAG_QUEUE, nor
\* ACTIVE_CONNECTIONS, nor the reader, nor the fan-out in progress.
C15_ClearOnlyClearsTagData ==
  [][(resp' # resp /\ resp'.ep = "clear")
       => /\ TAG_DATA' = <<>>
          /\ resp'.message = "Tag data cleared"
          /\ UNCHANGED <<TAG_QUEUE, ACTIVE_CONNECTIONS, reader, pqv, sent>>]_vars

\* GET /clear has returned for a dead reader; a batch of tags is still
\* waiting on the queue for a subscriber
C15_Witness ==
  /\ resp.ep = "clear"
  /\ ~alive
  /\ TAG_DATA = <<>>
  /\ TAG_QUEUE # <<>>
  /\ Head(TAG_QUEUE) # <<>>
  /\ ACTIVE_CONNECTIONS # <<>>

\* C16: when websocket_endpoint handles a WebSocketDisconnect, the
\* connection is still in ACTIVE_CONNECTIONS, so that list.remove does not
\* raise: no connection is removed twice.
C16_DisconnectFindsConnection == \A c \in Conns : ws[c] # "crashed"

\* C17: on shutdown with a live reader stopPolitely and then disconnect are
\* called, with a reader that is not alive neither is, and once shutdown
\* is over the reader is not connected any more.
C17_ShutdownDisconnectsReader ==
  [][/\ (life = "serving" /\ life' # "serving")
        => IF alive
             THEN cmds' = Append(cmds, "stopPolitely") /\ life' = "disconnect"
             ELSE cmds' = cmds /\ life' = "down"
     /\ (life = "disconnect" /\ life' = "down")
        => cmds' = Append(cmds, "disconnect")
     /\ (life' = "down") => ~alive']_vars

\* C18 (as stated): a GET /start-stop that has issued startInventory
\* issues stopPolitely before it completes, whatever happened in between.
C18_StartStopAlwaysStops ==
  [][(sspc = "sleep" /\ sspc' = "idle" /\ ssStart)
       => cmds' = Append(cmds, "stopPolitely")]_vars

\* C18 (amended): a GET /start-stop that has issued startInventory goes to
\* its wait, and when the wait ends it issues stopPolitely if the reader is
\* alive then, and no command if it is not.
C18_StartStopStopsLiveReader ==
  [][/\ (wpc = "ss_inv" /\ wpc' = "idle")
        => /\ cmds' = Append(cmds, "startInventory")
           /\ sspc' = "sleep"
           /\ ssStart'
     /\ (sspc = "sleep" /\ sspc' = "idle")
        => cmds' = IF alive THEN Append(cmds, "stopPolitely") ELSE cmds]_vars

\* a GET /start-stop has completed: inventory was started, tags were
\* reported during the wait, inventory was stopped
C18_Witness ==
  /\ resp = [ep |-> "start-stop"]
  /\ sspc = "idle"
  /\ alive
  /\ cmds = <<"startInventory", "stopPolitely">>
  /\ state = STATE_CONNECTED
  /\ putLog # <<>>

\* ----------------------------------------------------------- specifications
NextTags ==
  \/ start
  \/ start_startInventory
  \/ stop
  \/ get_tags
  \/ is_reading_name
  \/ is_reading_code
  \/ clear
  \/ \E b \in ReportBatches : tag_report_store(b)
  \/ tag_report_put
  \/ \E e \in EventSet : handle_event(e)
  \/ gpi_start_inventory
  \/ ReaderDies
  \/ process_queue_poll

SpecTags == Init /\ [][NextTags]_vars

FanoutBatches == SeqsUpTo(TagReportSet, 1)

NextFanout ==
  \/ start
  \/ start_startInventory
  \/ stop
  \/ \E b \in FanoutBatches : tag_report_store(b)
  \/ tag_report_put
  \/ process_queue_poll
  \/ send_json_ok
  \/ send_json_raises
  \/ \E c \in Conns : websocket_accept(c)
  \/ \E c \in Conns : websocket_disconnect(c)
  \/ \E c \in Conns : websocket_error(c)

SpecFanout == Init /\ [][NextFanout]_vars

\* The event loop runs a ready task: the polling task is resumed when its
\* sleep or its send_json ends, and a handler runs on to its return.
FairFanout ==
  /\ WF_vars(process_queue_poll)
  /\ WF_vars(send_json_ok \/ send_json_raises)
  /\ WF_vars(start_startInventory)
  /\ WF_vars(tag_report_put)

SpecFanoutFair == Init /\ [][NextFanout]_vars /\ FairFanout

NextClear ==
  \/ start
  \/ start_startInventory
  \/ clear
  \/ ReaderDies
  \/ \E b \in FanoutBatches : tag_report_store(b)
  \/ tag_report_put
  \/ process_queue_poll
  \/ send_json_ok
  \/ send_json_raises
  \/ \E c \in Conns : websocket_accept(c)
  \/ \E c \in Conns : websocket_disconnect(c)

SpecClear == Init /\ [][NextClear]_vars

\* Handlers and the polling task run while the application serves; the
\* reader thread runs for as long as it is alive.
NextLife ==
  \/ (life = "serving" /\ start)
  \/ (life = "serving" /\ start_startInventory)
  \/ (life = "serving" /\ stop)
  \/ (life = "serving" /\ process_queue_poll)
  \/ \E b \in FanoutBatches : tag_report_store(b)
  \/ tag_report_put
  \/ \E e \in EventSet : handle_event(e)
  \/ gpi_start_inventory
  \/ ReaderDies
  \/ lifespan_shutdown
  \/ lifespan_shutdown_raises
  \/ lifespan_disconnect

SpecLife == Init /\ [][NextLife]_vars

NextStartStop ==
  \/ start_stop
  \/ start_stop_startInventory
  \/ start_stop_wake
  \/ start
  \/ start_startInventory
  \/ stop
  \/ \E b \in FanoutBatches : tag_report_store(b)
  \/ tag_report_put
  \/ \E e \in EventSet : handle_event(e)
  \/ gpi_start_inventory
  \/ ReaderDies

SpecStartStop == Init /\ [][NextStartStop]_vars

NextWs ==
  \/ start
  \/ start_startInventory
  \/ \E b \in FanoutBatches : tag_report_store(b)
  \/ tag_report_put
  \/ \E c \in Conns : websocket_accept(c)
  \/ \E c \in Conns : client_send(c)
  \/ \E c \in Conns : websocket_receive_text(c)
  \/ \E c \in Conns : websocket_disconnect(c)
  \/ \E c \in Conns : websocket_error(c)

SpecWs == Init /\ [][NextWs]_vars

TypeOK ==
  /\ alive \in BOOLEAN
  /\ state \in StateCodes
  /\ wpc \in {"idle", "start_inv", "state_code", "ss_inv"}
  /\ rpc \in {"idle", "cb_put", "gpi_inv"}
  /\ qpc \in {"sleep", "send", "dead", "cancelled"}
  /\ nReports \in 0..MaxReports
====
